---- MODULE Spec2Model ----
(***************************************************************************)
(* A model of the coordination engine of the go-tss node:                  *)
(*   - SpecSession : one keygen / batch keysign session of the round relay *)
(*                   (EDDSAKeyGen.GenerateNewKey, EDDSATssKeySign.         *)
(*                   SignMessage and their processing loops);              *)
(*   - SpecComm    : the p2p Communication (subscription table, inbound    *)
(*                   stream readers, subscriber channels);                 *)
(*   - SpecKeySign : the orchestrator entry point TssServer.KeySign;       *)
(*   - SpecSubs    : the subscription table under arbitrary calls;         *)
(*   - SpecBlame   : the blame verdict built by the timeout handlers;      *)
(*   - SpecBroadcast : ProcessBroadcast and the broadcastToPeers tasks;    *)
(*   - SpecReader  : one inbound stream read frame by frame;               *)
(*   - SpecSessionLive : SpecSession with its tasks fairly scheduled;      *)
(*   - SpecTimeout : the select of the session loops against the clock.    *)
(* Each specification moves its own group of variables and leaves the      *)
(* other groups parked at their initial value.                             *)
(***************************************************************************)
EXTENDS Integers, Sequences, FiniteSets, TLC

\* ------------------------------------------------------------------ bounds
\* largest batch of messages signed in one session
MaxBatch == 2
\* outbound messages the local parties emit in one session
MaxOut == 1

\* KeySign calls that subscribe to the Communication
MaxCalls == 2
\* capacity of a subscriber channel
ChanCap == 1
\* inbound streams
MaxStreams == 1

\* most participant keys of a stored key-share, most signer keys of a request
MaxKeys == 4

\* most nodes of a session whose timeout builds a blame verdict
MaxNodes == 3

\* messages put on BroadcastMsgChan
MaxMsgs == 2
\* remote peers discovered under the rendezvous
MaxPeers == 2

\* frames one inbound stream carries
MaxRead == 4

\* events the local parties emit in a session whose clock is followed
MaxEmit == 2

\* the values of M (big-endian bytes of the hashed message, no leading zero
\* byte as big.Int.Bytes() produces them) the batches are drawn from
MsgChoices == {<<2>>, <<1, 0>>}

VARIABLES
    \* ---- session (part_002: eddsa keygen / keysign)
    kind,          \* "keygen" | "keysign"
    msgsToSign,    \* keysign: M of each message of the batch, in request order
    pc,            \* the session's caller task: "process", "taskwait", "wgwait", "returned", "panicked"
    startPc,       \* per party: the party-start task, "new" | "ready" | "done"
    started,       \* per party: number of calls of Start()
    startRet,      \* keysign: ret of startBatchSigning (FALSE once a Start() failed)
    batchPc,       \* the task that starts the parties: "spawn" | "wait" | "done"
    errCh,         \* TRUE once errChan is closed
    stopChan,      \* TRUE once the server's stopChan is closed
    outCh,         \* out-channel: sequence of "unicast" | "broadcast"
    emitted,       \* number of messages the parties have put on outCh
    lastMsg,       \* blame manager's last outbound message: "none" | "unicast" | "broadcast"
    endCh,         \* end-channel: sequence of final artifacts [party, M]
    ended,         \* per party: TRUE once it has emitted its final artifact
    signatures,    \* processKeySign's local list
    relayPc,       \* ProcessInboundMessages task: "running" | "done"
    updated,       \* per party: TRUE once an inbound update was fed to it
    commStopChan,  \* number of times close(commStopChan) ran
    taskDone,      \* number of TSSTaskDone notifications sent
    savedState,    \* number of SaveLocalState calls
    savedBook,     \* number of SaveAddressBook calls
    ret            \* the value returned to the caller

sessVars == <<kind, msgsToSign, pc, startPc, started, startRet, batchPc, errCh,
              stopChan, outCh, emitted, lastMsg, endCh, ended, signatures,
              relayPc, updated, commStopChan, taskDone, savedState,
              savedBook, ret>>

VARIABLES
    \* ---- p2p Communication (part_001)
    subscribers,   \* message-type -> (msg-id -> channel), both maps partial
    chans,         \* per KeySign call: the content of its subscriber channel
    callPc,        \* per KeySign call: "idle", "sub1", "sub2", "running", "stopped", "cancel1", "done"
    callMsgID,     \* per KeySign call: the msg-id of its request
    rpc,           \* per inbound stream: "none", "select", "read", "lookup", "send", "closed"
    rframe,        \* per inbound stream: the frame being handled
    rchan,         \* per inbound stream: the channel getSubscriber returned
    rat,           \* per inbound stream: the channel subscribed when the frame arrived
    staleDelivered, \* <<type, a, b>>: a frame that arrived while a was subscribed went to b
    rcount,        \* frames read so far from the inbound streams
    p2pStopChan    \* TRUE once Communication.stopChan is closed

commVars == <<subscribers, chans, callPc, callMsgID, rpc, rframe, rchan, rat,
              staleDelivered, rcount, p2pStopChan>>

VARIABLES
    \* ---- the subscription table driven by arbitrary calls
    lastOp         \* the last SetSubscribe / CancelSubscribe call and what it found

VARIABLES
    \* ---- TssServer.KeySign (part_002: tss keysign)
    ksReq,         \* the request and what the node holds for it
    ksPc,          \* "start", "wait", "join", "sign", "returned", "panicked"
    ksResp,        \* the (Response, error) returned
    ksCalls,       \* how often KeySign called each collaborator
    ksWaitTimeout, \* the timeout handed to WaitForSignature
    ksNotifier,    \* what WaitForSignature returned
    ksJoin,        \* what joinParty returned and whether the leader's key was extracted
    ksSign         \* what SignMessage returned

ksVars == <<ksReq, ksPc, ksResp, ksCalls, ksWaitTimeout, ksNotifier, ksJoin, ksSign>>

VARIABLES
    \* ---- the blame verdict built when a session times out (part_002)
    blKind,        \* "keygen" | "keysign"
    blNodes,       \* the nodes of the session: 1 .. n
    blLocal,       \* the local node
    blLast,        \* the last outbound message: "none" | "unicast" | "broadcast"
    blUnicast,     \* what GetUnicastBlame returns
    blBroadcast,   \* what GetBroadcastBlame returns
    blMissing,     \* what TssMissingShareBlame returns: [nodes, isUnicast]
    blPc,          \* "timeout" | "returned" | "panicked"
    blVerdict      \* blameMgr.GetBlame() when the loop has returned

blVars == <<blKind, blNodes, blLocal, blLast, blUnicast, blBroadcast, blMissing,
            blPc, blVerdict>>

VARIABLES
    \* ---- outbound side of the Communication (part_001)
    bcQueue,       \* BroadcastMsgChan: the queued messages [peers, marshalOk]
    bcSent,        \* messages put on BroadcastMsgChan so far
    pbPc,          \* the ProcessBroadcast task: "none" | "select" | "done"
    bcTasks,       \* the broadcastToPeers tasks, in the order they were started:
                   \* [pc ("start", "loop", "done", "stopped"), peers, todo,
                   \*  failed (the peers writeToStream returned an error for)]
    bcWrites       \* the write attempts (a stream is dialled): [task, peer]

bcVars == <<bcQueue, bcSent, pbPc, bcTasks, bcWrites>>

VARIABLES
    \* ---- one inbound stream and its read task (part_001: readFromStream)
    rdPc,          \* "none" | "select" | "send" | "closed"
    rdArrived,     \* the frames read from the stream so far: [len, json, msgID]
    rdChan,        \* the subscriber channel: positions (in rdArrived) of the queued frames
    rdGot,         \* positions of the frames sent to the subscriber channel, in order
    rdReset        \* TRUE once the deferred stream.Reset() ran

rdVars == <<rdPc, rdArrived, rdChan, rdGot, rdReset>>

VARIABLES
    \* ---- the select of processKeyGen / processKeySign against the clock
    tmKind,        \* "keygen" | "keysign"
    tmClock,       \* seconds since the loop was entered
    tmArmed,       \* when the time.After of the current select was created
    tmLastEvent,   \* when the last out-channel / end-channel event was taken (0: none yet)
    tmCh,          \* the events waiting on the out-channel and the end-channel
    tmEmitted,     \* events the local parties have emitted
    tmPc           \* "none" | "select" | "timedout" | "done"

tmVars == <<tmKind, tmClock, tmArmed, tmLastEvent, tmCh, tmEmitted, tmPc>>

vars == <<sessVars, commVars, lastOp, ksVars, blVars, bcVars, rdVars, tmVars>>

\* what the actions of each specification leave alone
sessFrame == <<commVars, lastOp, ksVars, blVars, bcVars, rdVars, tmVars>>
commFrame == <<sessVars, lastOp, ksVars, blVars, bcVars, rdVars, tmVars>>
subsFrame == <<sessVars, chans, callPc, callMsgID, rpc, rframe, rchan, rat,
               staleDelivered, rcount, p2pStopChan, ksVars, blVars, bcVars, rdVars, tmVars>>
ksFrame == <<sessVars, commVars, lastOp, blVars, bcVars, rdVars, tmVars>>
blFrame == <<sessVars, commVars, lastOp, ksVars, bcVars, rdVars, tmVars>>
bcFrame == <<sessVars, subscribers, chans, callPc, callMsgID, rpc, rframe, rchan, rat,
             staleDelivered, rcount, lastOp, ksVars, blVars, rdVars, tmVars>>
tmFrame == <<sessVars, commVars, lastOp, ksVars, blVars, bcVars, rdVars>>
rdFrame == <<sessVars, subscribers, chans, callPc, callMsgID, rpc, rframe, rchan, rat,
             staleDelivered, rcount, lastOp, ksVars, blVars, bcVars, tmVars>>

\* ------------------------------------------------------------ pure helpers

\* big.Int.SetBytes: the bytes read as a big-endian unsigned integer
RECURSIVE SetBytes(_)
SetBytes(b) ==
    IF Len(b) = 0 THEN 0
    ELSE 256 * SetBytes(SubSeq(b, 1, Len(b) - 1)) + b[Len(b)]

\* the less function handed to sort.SliceStable: false when a < b, true otherwise
SortLess(x, y) ==
    IF SetBytes(x.M) < SetBytes(y.M) THEN FALSE ELSE TRUE

Swap(s, i, j) == [s EXCEPT ![i] = s[j], ![j] = s[i]]

\* sort.insertionSort's inner loop: for j := i; j > a && less(j, j-1); j-- { swap }
RECURSIVE SortSink(_, _)
SortSink(s, j) ==
    IF j > 1 /\ SortLess(s[j], s[j - 1]) THEN SortSink(Swap(s, j, j - 1), j - 1) ELSE s

RECURSIVE InsertionSort(_, _)
InsertionSort(s, i) ==
    IF i > Len(s) THEN s ELSE InsertionSort(SortSink(s, i), i + 1)

\* sort.SliceStable on a slice shorter than its block size of 20: one insertion sort
SliceStable(s) == InsertionSort(s, 2)

\* ------------------------------------------------------------ session

NoRet == [status |-> "none", sigs |-> <<>>]

\* the local MPC parties: one for keygen, one per message for keysign
\* (moniker = hex(m) + ":" + index, so the index identifies the party)
Parties == IF kind = "keygen" THEN {1} ELSE 1 .. Len(msgsToSign)

reqNum == Len(msgsToSign)

Batches == UNION {[1 .. k -> MsgChoices] : k \in 0 .. MaxBatch}

NoOp == [op |-> "none", topic |-> "", msgID |-> 0, wasLast |-> FALSE]
NoReq == [msgIdOk |-> FALSE, stateOk |-> FALSE, decodeOk |-> FALSE, peerIdsOk |-> FALSE,
          participants |-> 0, signers |-> 0, isSigner |-> FALSE]
\* common.NoBlame
NoBlame == [reason |-> "", nodes |-> {}]
NoResp == [status |-> "none", err |-> "", blame |-> NoBlame, sigs |-> "none"]
NoJoin == [result |-> "none", keyOk |-> FALSE, absent |-> {}]
NoCalls == [subscribe |-> 0, cancel |-> 0, wait |-> 0, join |-> 0, sign |-> 0,
            failed |-> 0, notified |-> 0]

\* TssServer.KeySign while a specification does not move it
KsParked ==
    /\ ksReq = NoReq
    /\ ksPc = "returned"
    /\ ksResp = NoResp
    /\ ksCalls = NoCalls
    /\ ksWaitTimeout = 0
    /\ ksNotifier = "none"
    /\ ksJoin = NoJoin
    /\ ksSign = "none"

\* common.Blame with nothing set
EmptyBlame == [reason |-> "", nodes |-> {}, isUnicast |-> FALSE]

\* the timeout handler while a specification does not move it
BlParked ==
    /\ blKind = "keygen"
    /\ blNodes = {}
    /\ blLocal = 0
    /\ blLast = "none"
    /\ blUnicast = {}
    /\ blBroadcast = {}
    /\ blMissing = [nodes |-> {}, isUnicast |-> FALSE]
    /\ blPc = "returned"
    /\ blVerdict = EmptyBlame

\* the outbound side of the Communication while a specification does not move it
BcParked ==
    /\ bcQueue = <<>>
    /\ bcSent = 0
    /\ pbPc = "none"
    /\ bcTasks = <<>>
    /\ bcWrites = {}

\* the clocked loop while a specification does not move it
TmParked ==
    /\ tmKind = "keygen"
    /\ tmClock = 0
    /\ tmArmed = 0
    /\ tmLastEvent = 0
    /\ tmCh = <<>>
    /\ tmEmitted = 0
    /\ tmPc = "none"

\* the inbound stream while a specification does not move it
RdParked ==
    /\ rdPc = "none"
    /\ rdArrived = <<>>
    /\ rdChan = <<>>
    /\ rdGot = <<>>
    /\ rdReset = FALSE

\* the Communication while a specification does not move it
CommParked ==
    /\ lastOp = NoOp
    /\ subscribers = <<>>
    /\ chans = <<>>
    /\ callPc = <<>>
    /\ callMsgID = <<>>
    /\ rpc = <<>>
    /\ rframe = <<>>
    /\ rchan = <<>>
    /\ rat = <<>>
    /\ staleDelivered = {}
    /\ rcount = 0
    /\ p2pStopChan = FALSE

SessInit ==
    /\ TmParked
    /\ CommParked
    /\ KsParked
    /\ BlParked
    /\ BcParked
    /\ RdParked
    /\ kind \in {"keygen", "keysign"}
    /\ msgsToSign \in Batches
    /\ kind = "keygen" => msgsToSign = <<>>
    /\ pc = "process"
    /\ startPc = [p \in Parties |-> IF kind = "keygen" THEN "ready" ELSE "new"]
    /\ started = [p \in Parties |-> 0]
    /\ startRet = TRUE
    /\ batchPc = IF kind = "keygen" THEN "wait" ELSE "spawn"
    /\ errCh = FALSE
    /\ stopChan = FALSE
    /\ outCh = <<>>
    /\ emitted = 0
    /\ lastMsg = "none"
    /\ endCh = <<>>
    /\ ended = [p \in Parties |-> FALSE]
    /\ signatures = <<>>
    /\ relayPc = "running"
    /\ updated = [p \in Parties |-> FALSE]
    /\ commStopChan = 0
    /\ taskDone = 0
    /\ savedState = 0
    /\ savedBook = 0
    /\ ret = NoRet

\* eachParty.Start() in the task started for party p (the party is handed to the
\* task as an argument, so each task starts its own party)
CallStartShared(p) ==
    [started EXCEPT ![CHOOSE q \in Parties : \A r \in Parties : r <= q] = @ + 1]

CallStart(p) == [started EXCEPT ![p] = @ + 1]

\* GenerateNewKey's start task: keyGenParty.Start(), close(errChan) on failure
KeyGenPartyStart(ok) ==
    /\ kind = "keygen"
    /\ startPc[1] = "ready"
    /\ started' = CallStart(1)
    /\ startPc' = [startPc EXCEPT ![1] = IF ok THEN "done" ELSE "failed"]
    /\ errCh' = (errCh \/ ~ok)
    /\ batchPc' = "done"
    /\ UNCHANGED <<kind, msgsToSign, pc, startRet, stopChan, outCh, emitted, lastMsg,
                   endCh, ended, signatures, relayPc, updated, commStopChan,
                   taskDone, savedState, savedBook, ret>>
    /\ UNCHANGED sessFrame

\* startBatchSigning: keySignWg.Add(msgNum) and one task per party of the map
BatchSpawn ==
    /\ kind = "keysign"
    /\ batchPc = "spawn"
    /\ startPc' = [p \in Parties |-> "ready"]
    /\ batchPc' = "wait"
    /\ UNCHANGED <<kind, msgsToSign, pc, started, startRet, errCh, stopChan, outCh,
                   emitted, lastMsg, endCh, ended, signatures, relayPc, updated, commStopChan, taskDone, savedState, savedBook, ret>>
    /\ UNCHANGED sessFrame

\* the task of one party: eachParty.Start(); ret.Store(false) on error
PartyStart(p, ok) ==
    /\ kind = "keysign"
    /\ startPc[p] = "ready"
    /\ started' = CallStart(p)
    /\ startPc' = [startPc EXCEPT ![p] = IF ok THEN "done" ELSE "failed"]
    /\ startRet' = (startRet /\ ok)
    /\ UNCHANGED <<kind, msgsToSign, pc, batchPc, errCh, stopChan, outCh, emitted,
                   lastMsg, endCh, ended, signatures, relayPc, updated,
                   commStopChan, taskDone, savedState, savedBook, ret>>
    /\ UNCHANGED sessFrame

\* keySignWg.Wait() of startBatchSigning, then close(errCh) when ret is false
BatchWait ==
    /\ kind = "keysign"
    /\ batchPc = "wait"
    /\ \A p \in Parties : startPc[p] \in {"done", "failed"}
    /\ errCh' = (errCh \/ ~startRet)
    /\ batchPc' = "done"
    /\ UNCHANGED <<kind, msgsToSign, pc, startPc, started, startRet, stopChan, outCh,
                   emitted, lastMsg, endCh, ended, signatures, relayPc, updated, commStopChan, taskDone, savedState, savedBook, ret>>
    /\ UNCHANGED sessFrame

\* the MPC library: a started party emits a round message on the out-channel
PartyEmit(p, b) ==
    /\ startPc[p] = "done"
    /\ ~ended[p]
    /\ emitted < MaxOut
    /\ outCh' = Append(outCh, b)
    /\ emitted' = emitted + 1
    /\ UNCHANGED <<kind, msgsToSign, pc, startPc, started, startRet, batchPc, errCh,
                   stopChan, lastMsg, endCh, ended, signatures, relayPc, updated, commStopChan, taskDone, savedState, savedBook, ret>>
    /\ UNCHANGED sessFrame

\* the MPC library: a started party emits its final artifact on the end-channel
PartyEnd(p) ==
    /\ startPc[p] = "done"
    /\ ~ended[p]
    /\ endCh' = Append(endCh, [party |-> p,
                               M |-> IF kind = "keygen" THEN <<>> ELSE msgsToSign[p]])
    /\ ended' = [ended EXCEPT ![p] = TRUE]
    /\ UNCHANGED <<kind, msgsToSign, pc, startPc, started, startRet, batchPc, errCh,
                   stopChan, outCh, emitted, lastMsg, signatures, relayPc, updated, commStopChan, taskDone, savedState, savedBook, ret>>
    /\ UNCHANGED sessFrame

\* ProcessInboundMessages: takes a frame of the subscription channel and feeds
\* it to the party its moniker names (UpdateFromBytes)
RelayUpdate(p) ==
    /\ relayPc = "running"
    /\ ~updated[p]     \* later frames for p change nothing the model records
    /\ updated' = [updated EXCEPT ![p] = TRUE]
    /\ UNCHANGED <<kind, msgsToSign, pc, startPc, started, startRet, batchPc, errCh,
                   stopChan, outCh, emitted, lastMsg, endCh, ended, signatures,
                   relayPc, commStopChan, taskDone, savedState, savedBook, ret>>
    /\ UNCHANGED sessFrame

\* ProcessInboundMessages ends when commStopChan is closed
RelayStop ==
    /\ relayPc = "running"
    /\ commStopChan > 0
    /\ relayPc' = "done"
    /\ UNCHANGED <<kind, msgsToSign, pc, startPc, started, startRet, batchPc, errCh,
                   stopChan, outCh, emitted, lastMsg, endCh, ended, signatures,
                   updated, commStopChan, taskDone, savedState, savedBook,
                   ret>>
    /\ UNCHANGED sessFrame

\* TssServer.Stop closes the stop channel the sessions share
StopSignal ==
    /\ pc \in {"process", "taskwait", "wgwait"}
    /\ ~stopChan
    /\ stopChan' = TRUE
    /\ UNCHANGED <<kind, msgsToSign, pc, startPc, started, startRet, batchPc, errCh,
                   outCh, emitted, lastMsg, endCh, ended, signatures, relayPc,
                   updated, commStopChan, taskDone, savedState, savedBook,
                   ret>>
    /\ UNCHANGED sessFrame

\* ------------------------------------------------ the processing loops

\* the exit of processKeyGen / processKeySign with an error, followed by the
\* caller's error branch: close(commStopChan); return nil, err
FailReturn(reason) ==
    /\ pc' = "returned"
    /\ commStopChan' = commStopChan + 1
    /\ ret' = [status |-> reason, sigs |-> <<>>]

\* len(signatures) == reqNum
AllSignedEarly(sigs, n) == Len(sigs) >= 1

AllSigned(sigs, n) == Len(sigs) = n

\* case <-errChan
ProcErrChan ==
    /\ pc = "process"
    /\ errCh
    /\ FailReturn("start_error")
    /\ UNCHANGED <<kind, msgsToSign, startPc, started, startRet, batchPc, errCh,
                   stopChan, outCh, emitted, lastMsg, endCh, ended, signatures,
                   relayPc, updated, taskDone, savedState, savedBook>>
    /\ UNCHANGED sessFrame

\* case <-stopChan
ProcStop ==
    /\ pc = "process"
    /\ stopChan
    /\ FailReturn("exit_signal")
    /\ UNCHANGED <<kind, msgsToSign, startPc, started, startRet, batchPc, errCh,
                   stopChan, outCh, emitted, lastMsg, endCh, ended, signatures,
                   relayPc, updated, taskDone, savedState, savedBook>>
    /\ UNCHANGED sessFrame

\* case <-time.After(timeout): keygen returns an error when no message was
\* produced yet; keysign calls lastMsg.IsBroadcast() on the nil message
ProcTimeout ==
    /\ pc = "process"
    /\ IF kind = "keysign" /\ lastMsg = "none"
       THEN /\ pc' = "panicked"
            /\ UNCHANGED <<commStopChan, ret>>
       ELSE FailReturn("timeout")
    /\ UNCHANGED <<kind, msgsToSign, startPc, started, startRet, batchPc, errCh,
                   stopChan, outCh, emitted, lastMsg, endCh, ended, signatures,
                   relayPc, updated, taskDone, savedState, savedBook>>
    /\ UNCHANGED sessFrame

\* case msg := <-outCh: SetLastMsg(msg); ProcessOutCh(msg), whose error ends the loop
ProcOut(ok) ==
    /\ pc = "process"
    /\ outCh # <<>>
    /\ lastMsg' = Head(outCh)
    /\ outCh' = Tail(outCh)
    /\ IF ok THEN UNCHANGED <<pc, commStopChan, ret>> ELSE FailReturn("out_error")
    /\ UNCHANGED <<kind, msgsToSign, startPc, started, startRet, batchPc, errCh,
                   stopChan, emitted, endCh, ended, signatures, relayPc, updated, taskDone, savedState, savedBook>>
    /\ UNCHANGED sessFrame

\* keysign, case msg := <-endCh: append; with the last one NotifyTaskDone,
\* SaveAddressBook and return signatures
ProcEndKeySign ==
    /\ kind = "keysign"
    /\ pc = "process"
    /\ endCh # <<>>
    /\ signatures' = Append(signatures, Head(endCh))
    /\ endCh' = Tail(endCh)
    /\ IF AllSigned(signatures', reqNum)
       THEN /\ taskDone' = taskDone + 1
            /\ savedBook' = savedBook + 1
            /\ pc' = "taskwait"
       ELSE UNCHANGED <<taskDone, savedBook, pc>>
    /\ UNCHANGED <<kind, msgsToSign, startPc, started, startRet, batchPc, errCh,
                   stopChan, outCh, emitted, lastMsg, ended, relayPc, updated, commStopChan, savedState, ret>>
    /\ UNCHANGED sessFrame

\* keygen, case msg := <-endCh: NotifyTaskDone, then the public key, the
\* marshalling and SaveLocalState, each of which may fail, then SaveAddressBook
ProcEndKeyGen(outcome) ==
    /\ kind = "keygen"
    /\ pc = "process"
    /\ endCh # <<>>
    /\ endCh' = Tail(endCh)
    /\ taskDone' = taskDone + 1
    /\ savedState' = IF outcome \in {"save_error", "success"} THEN savedState + 1
                     ELSE savedState
    /\ IF outcome = "success"
       THEN /\ savedBook' = savedBook + 1
            /\ pc' = "taskwait"
            /\ UNCHANGED <<commStopChan, ret>>
       ELSE /\ FailReturn(outcome)
            /\ UNCHANGED savedBook
    /\ UNCHANGED <<kind, msgsToSign, startPc, started, startRet, batchPc, errCh,
                   stopChan, outCh, emitted, lastMsg, ended, signatures, relayPc,
                   updated>>
    /\ UNCHANGED sessFrame

\* select { case <-time.After(5s): close(commStopChan) ... }
TaskWaitTimer ==
    /\ pc = "taskwait"
    /\ commStopChan' = commStopChan + 1
    /\ pc' = "wgwait"
    /\ UNCHANGED <<kind, msgsToSign, startPc, started, startRet, batchPc, errCh,
                   stopChan, outCh, emitted, lastMsg, endCh, ended, signatures,
                   relayPc, updated, taskDone, savedState, savedBook, ret>>
    /\ UNCHANGED sessFrame

\* select { ... case <-GetTaskDone(): close(commStopChan) }
TaskWaitDone ==
    /\ pc = "taskwait"
    /\ commStopChan' = commStopChan + 1
    /\ pc' = "wgwait"
    /\ UNCHANGED <<kind, msgsToSign, startPc, started, startRet, batchPc, errCh,
                   stopChan, outCh, emitted, lastMsg, endCh, ended, signatures,
                   relayPc, updated, taskDone, savedState, savedBook, ret>>
    /\ UNCHANGED sessFrame

\* keyGenWg.Wait() / keySignWg.Wait(), then the sort of the results and the return
SessionReturn ==
    /\ pc = "wgwait"
    /\ batchPc = "done"
    /\ relayPc = "done"
    /\ pc' = "returned"
    /\ ret' = [status |-> "success", sigs |-> SliceStable(signatures)]
    /\ UNCHANGED <<kind, msgsToSign, startPc, started, startRet, batchPc, errCh,
                   stopChan, outCh, emitted, lastMsg, endCh, ended, signatures,
                   relayPc, updated, commStopChan, taskDone, savedState,
                   savedBook>>
    /\ UNCHANGED sessFrame

SessNext ==
    \/ \E ok \in BOOLEAN : KeyGenPartyStart(ok)
    \/ BatchSpawn
    \/ \E p \in Parties, ok \in BOOLEAN : PartyStart(p, ok)
    \/ BatchWait
    \/ \E p \in Parties, b \in {"unicast", "broadcast"} : PartyEmit(p, b)
    \/ \E p \in Parties : PartyEnd(p)
    \/ \E p \in Parties : RelayUpdate(p)
    \/ RelayStop
    \/ StopSignal
    \/ ProcErrChan
    \/ ProcStop
    \/ ProcTimeout
    \/ \E ok \in BOOLEAN : ProcOut(ok)
    \/ ProcEndKeySign
    \/ \E o \in {"pubkey_error", "marshal_error", "save_error", "success"} :
          ProcEndKeyGen(o)
    \/ TaskWaitTimer
    \/ TaskWaitDone
    \/ SessionReturn

SpecSession == SessInit /\ [][SessNext]_vars

\* ------------------------------------------------ claims on the session

SessionSucceeded == pc = "returned" /\ ret.status = "success"

\* C1: the signatures a signing session returns are in ascending order of the
\* numeric (big-endian) value of M: value(sigs[i].M) <= value(sigs[i+1].M)
C1_SignaturesAscending ==
    (kind = "keysign" /\ SessionSucceeded) =>
        \A i \in 1 .. Len(ret.sigs) - 1 :
            SetBytes(ret.sigs[i].M) <= SetBytes(ret.sigs[i + 1].M)

C3_StartExactlyOnce ==
    /\ \A p \in Parties : started[p] <= 1
    /\ \A p \in Parties : startPc[p] \in {"done", "failed"} => started[p] = 1
    /\ batchPc = "done" => \A p \in Parties : started[p] = 1

C3_Witness ==
    kind = "keysign" /\ reqNum >= 2 /\ batchPc = "done"

\* C4: no inbound message is fed to a party before its Start() was called
C4_StartBeforeUpdate ==
    \A p \in Parties : updated[p] => started[p] >= 1

\* C17: when the session timeout fires while the last outbound message is
\* unset, the keygen loop and the keysign loop both return a failure to their
\* caller: the timeout handler never dereferences the unset message, so no
\* session ends in a crash
C17_TimeoutWithoutLastMsgFails ==
    /\ pc # "panicked"
    /\ (pc = "returned" /\ ret.status = "timeout") => ret.sigs = <<>>

\* C24: the persisted artifacts are written on success only: SaveLocalState
\* (keygen) and SaveAddressBook are called only once every local party has
\* emitted its final artifact and the loop has read them all, and a session
\* that fails on a start error, the stop signal, the timeout or an outbound
\* failure (or that crashes) has called neither
C24_PersistOnSuccessOnly ==
    /\ savedState <= 1
    /\ savedBook <= 1
    /\ kind = "keysign" => savedState = 0
    /\ (savedState > 0 \/ savedBook > 0) =>
          /\ \A p \in Parties : ended[p]
          /\ endCh = <<>>
          /\ pc \in {"taskwait", "wgwait", "returned"}
    /\ savedBook > 0 => (pc \in {"taskwait", "wgwait"} \/ SessionSucceeded)
    /\ (pc = "returned"
          /\ ret.status \in {"start_error", "exit_signal", "timeout", "out_error"}) =>
          (savedState = 0 /\ savedBook = 0)
    /\ pc = "panicked" => (savedState = 0 /\ savedBook = 0)

\* a batch of two messages was signed and the address book saved once
C24_Witness ==
    /\ kind = "keysign"
    /\ reqNum >= 2
    /\ SessionSucceeded
    /\ savedBook = 1
    /\ savedState = 0

\* C25: TSSTaskDone is emitted at most once per session and only after all
\* local parties have ended; the inbound relay is stopped only after the wait
\* that follows; a session that fails never emits it
C25_TaskDoneOnSuccessOnly ==
    /\ taskDone <= 1
    /\ taskDone > 0 => \A p \in Parties : ended[p]
    /\ pc \in {"process", "taskwait"} => relayPc = "running"
    /\ (pc = "returned" /\ ret.status # "success") => taskDone = 0

\* C26: every keygen / keysign session eventually returns to its caller
C26_SessionReturns == <>(pc = "returned")

\* the session with its timers firing and its tasks scheduled: time.After
\* delivers, and a task that can take a step eventually takes one
SpecSessionLive == SessInit /\ [][SessNext]_vars /\ WF_vars(SessNext)

\* C30: commStopChan is closed exactly once on every path through
\* GenerateNewKey / SignMessage that has started the inbound relay: never
\* twice, and once when the call is over
C30_CommStopClosedOnce ==
    /\ commStopChan <= 1
    /\ pc \in {"wgwait", "returned", "panicked"} => commStopChan = 1

\* ------------------------------------------------------------ Communication

Topics == {"TSSKeySignMsg", "TSSKeySignVerMsg"}
Calls == 1 .. MaxCalls
\* the msg-ids of the requests: at most one per call
MsgIDs == Calls
\* frames read from the inbound streams: enough to fill a channel and one more
MaxFrames == ChanCap + 1
Streams == 1 .. MaxStreams
\* the nil channel
NilChan == 0
NoFrame == [topic |-> "", msgID |-> 0]

\* MessageIDSubscriber: a msg-id -> channel map
NewMessageIDSubscriber == <<>>
Subscribe(ms, msgID, channel) ==
    [m \in (DOMAIN ms) \cup {msgID} |-> IF m = msgID THEN channel ELSE ms[m]]
UnSubscribe(ms, msgID) == [m \in (DOMAIN ms) \ {msgID} |-> ms[m]]
IsEmpty(ms) == DOMAIN ms = {}
GetSubscriber(ms, msgID) == IF msgID \in DOMAIN ms THEN ms[msgID] ELSE NilChan

\* Communication.SetSubscribe, under subscriberLocker
SetSubscribe(subs, topic, msgID, channel) ==
    LET messageIDSubscribers ==
            IF topic \in DOMAIN subs THEN subs[topic] ELSE NewMessageIDSubscriber
    IN  [t \in (DOMAIN subs) \cup {topic} |->
            IF t = topic THEN Subscribe(messageIDSubscribers, msgID, channel)
            ELSE subs[t]]

\* Communication.getSubscriber, under subscriberLocker
getSubscriber(subs, topic, msgID) ==
    IF topic \notin DOMAIN subs THEN NilChan ELSE GetSubscriber(subs[topic], msgID)

\* CancelSubscribe that keeps the emptied inner map
CancelSubscribeKeepEmpty(subs, topic, msgID) ==
    IF topic \notin DOMAIN subs THEN subs
    ELSE [subs EXCEPT ![topic] = UnSubscribe(subs[topic], msgID)]

\* Communication.CancelSubscribe, under subscriberLocker
CancelSubscribe(subs, topic, msgID) ==
    IF topic \notin DOMAIN subs THEN subs
    ELSE LET messageIDSubscribers == UnSubscribe(subs[topic], msgID)
         IN  IF IsEmpty(messageIDSubscribers)
             THEN [t \in (DOMAIN subs) \ {topic} |-> subs[t]]
             ELSE [subs EXCEPT ![topic] = messageIDSubscribers]

\* the session while a specification does not move it
SessParked ==
    /\ kind = "keygen"
    /\ msgsToSign = <<>>
    /\ pc = "returned"
    /\ startPc = <<>>
    /\ started = <<>>
    /\ startRet = TRUE
    /\ batchPc = "done"
    /\ errCh = FALSE
    /\ stopChan = FALSE
    /\ outCh = <<>>
    /\ emitted = 0
    /\ lastMsg = "none"
    /\ endCh = <<>>
    /\ ended = <<>>
    /\ signatures = <<>>
    /\ relayPc = "done"
    /\ updated = <<>>
    /\ commStopChan = 0
    /\ taskDone = 0
    /\ savedState = 0
    /\ savedBook = 0
    /\ ret = NoRet

CommInit ==
    /\ TmParked
    /\ SessParked
    /\ KsParked
    /\ BlParked
    /\ BcParked
    /\ RdParked
    /\ lastOp = NoOp
    /\ subscribers = <<>>
    /\ chans = [c \in Calls |-> <<>>]
    /\ callPc = [c \in Calls |-> "idle"]
    /\ callMsgID = [c \in Calls |-> 0]
    /\ rpc = [r \in Streams |-> "none"]
    /\ rframe = [r \in Streams |-> NoFrame]
    /\ rchan = [r \in Streams |-> NilChan]
    /\ rat = [r \in Streams |-> NilChan]
    /\ staleDelivered = {}
    /\ rcount = 0
    /\ p2pStopChan = FALSE

\* KeySign: SetSubscribe(TSSKeySignMsg, msgID, keySignChannels)
KeySignSubscribe1(c, id) ==
    /\ callPc[c] = "idle"
    \* calls and msg-ids are interchangeable: they are taken in order of first use
    /\ c > 1 => callPc[c - 1] # "idle"
    /\ \A j \in 1 .. id - 1 : \E d \in Calls : callMsgID[d] = j
    /\ callMsgID' = [callMsgID EXCEPT ![c] = id]
    /\ subscribers' = SetSubscribe(subscribers, "TSSKeySignMsg", id, c)
    /\ callPc' = [callPc EXCEPT ![c] = "sub1"]
    /\ UNCHANGED <<chans, rpc, rframe, rchan, rat, staleDelivered, rcount, p2pStopChan>>
    /\ UNCHANGED commFrame

\* KeySign: SetSubscribe(TSSKeySignVerMsg, msgID, keySignChannels)
KeySignSubscribe2(c) ==
    /\ callPc[c] = "sub1"
    /\ subscribers' = SetSubscribe(subscribers, "TSSKeySignVerMsg", callMsgID[c], c)
    /\ callPc' = [callPc EXCEPT ![c] = "sub2"]
    /\ UNCHANGED <<chans, callMsgID, rpc, rframe, rchan, rat, staleDelivered, rcount, p2pStopChan>>
    /\ UNCHANGED commFrame

\* SignMessage launches ProcessInboundMessages, which drains the channel
CallRelayStart(c) ==
    /\ callPc[c] = "sub2"
    /\ callPc' = [callPc EXCEPT ![c] = "running"]
    /\ UNCHANGED <<subscribers, chans, callMsgID, rpc, rframe, rchan, rat, staleDelivered, rcount,
                   p2pStopChan>>
    /\ UNCHANGED commFrame

\* ProcessInboundMessages receives one message of the channel
CallRelayDrain(c) ==
    /\ callPc[c] = "running"
    /\ chans[c] # <<>>
    /\ chans' = [chans EXCEPT ![c] = Tail(@)]
    /\ UNCHANGED <<subscribers, callPc, callMsgID, rpc, rframe, rchan, rat, staleDelivered, rcount,
                   p2pStopChan>>
    /\ UNCHANGED commFrame

\* ProcessInboundMessages ends (commStopChan closed): nothing drains the channel any more
CallRelayStop(c) ==
    /\ callPc[c] = "running"
    /\ callPc' = [callPc EXCEPT ![c] = "stopped"]
    /\ UNCHANGED <<subscribers, chans, callMsgID, rpc, rframe, rchan, rat, staleDelivered, rcount,
                   p2pStopChan>>
    /\ UNCHANGED commFrame

\* KeySign returns, deferred CancelSubscribe(TSSKeySignVerMsg, msgID) runs first
KeySignCancel1(c) ==
    /\ callPc[c] \in {"sub2", "stopped"}
    /\ subscribers' = CancelSubscribe(subscribers, "TSSKeySignVerMsg", callMsgID[c])
    /\ callPc' = [callPc EXCEPT ![c] = "cancel1"]
    /\ UNCHANGED <<chans, callMsgID, rpc, rframe, rchan, rat, staleDelivered, rcount, p2pStopChan>>
    /\ UNCHANGED commFrame

\* then the deferred CancelSubscribe(TSSKeySignMsg, msgID)
KeySignCancel2(c) ==
    /\ callPc[c] = "cancel1"
    /\ subscribers' = CancelSubscribe(subscribers, "TSSKeySignMsg", callMsgID[c])
    /\ callPc' = [callPc EXCEPT ![c] = "done"]
    /\ UNCHANGED <<chans, callMsgID, rpc, rframe, rchan, rat, staleDelivered, rcount, p2pStopChan>>
    /\ UNCHANGED commFrame

\* handleStream: a peer opens a stream, a read task is started for it
HandleStream(r) ==
    /\ rpc[r] = "none"
    /\ r > 1 => rpc[r - 1] # "none"      \* streams are interchangeable
    /\ ~p2pStopChan
    /\ rpc' = [rpc EXCEPT ![r] = "select"]
    /\ UNCHANGED <<subscribers, chans, callPc, callMsgID, rframe, rchan, rat, staleDelivered, rcount,
                   p2pStopChan>>
    /\ UNCHANGED commFrame

\* readFromStream, top of the loop: select { case <-stopChan: return; default: }
ReaderSelect(r) ==
    /\ rpc[r] = "select"
    /\ rpc' = [rpc EXCEPT ![r] = IF p2pStopChan THEN "closed" ELSE "read"]
    /\ UNCHANGED <<subscribers, chans, callPc, callMsgID, rframe, rchan, rat, staleDelivered, rcount,
                   p2pStopChan>>
    /\ UNCHANGED commFrame

\* header and body read and unmarshalled: a WrappedMessage for (topic, msgID)
ReadFrame(r, topic, id) ==
    /\ rpc[r] = "read"
    /\ rcount < MaxFrames
    /\ rcount' = rcount + 1
    /\ rframe' = [rframe EXCEPT ![r] = [topic |-> topic, msgID |-> id]]
    /\ rat' = [rat EXCEPT ![r] = getSubscriber(subscribers, topic, id)]
    /\ rpc' = [rpc EXCEPT ![r] = "lookup"]
    /\ UNCHANGED <<subscribers, chans, callPc, callMsgID, rchan, staleDelivered,
                   p2pStopChan>>
    /\ UNCHANGED commFrame

\* the body is not valid JSON: logged, continue
ReadMalformed(r) ==
    /\ rpc[r] = "read"
    /\ rcount < MaxFrames
    /\ rcount' = rcount + 1
    /\ rpc' = [rpc EXCEPT ![r] = "select"]
    /\ UNCHANGED <<subscribers, chans, callPc, callMsgID, rframe, rchan, rat, staleDelivered, p2pStopChan>>
    /\ UNCHANGED commFrame

\* EOF, read error or deadline, short header, or a length above MaxPayload: return
ReadEnd(r) ==
    /\ rpc[r] = "read"
    /\ rpc' = [rpc EXCEPT ![r] = "closed"]
    /\ UNCHANGED <<subscribers, chans, callPc, callMsgID, rframe, rchan, rat, staleDelivered, rcount,
                   p2pStopChan>>
    /\ UNCHANGED commFrame

\* channel := c.getSubscriber(type, msgID); nil: logged, continue
ReaderLookup(r) ==
    /\ rpc[r] = "lookup"
    /\ LET channel == getSubscriber(subscribers, rframe[r].topic, rframe[r].msgID)
       IN  /\ rchan' = [rchan EXCEPT ![r] = channel]
           /\ rpc' = [rpc EXCEPT ![r] = IF channel = NilChan THEN "select" ELSE "send"]
           /\ rframe' = [rframe EXCEPT ![r] = IF channel = NilChan THEN NoFrame ELSE @]
           /\ rat' = [rat EXCEPT ![r] = IF channel = NilChan THEN NilChan ELSE @]
    /\ UNCHANGED <<subscribers, chans, callPc, callMsgID, staleDelivered, rcount,
                   p2pStopChan>>
    /\ UNCHANGED commFrame

\* channel <- &Message{...}: a plain send, possible only while the channel has room
ReaderSend(r) ==
    /\ rpc[r] = "send"
    /\ Len(chans[rchan[r]]) < ChanCap
    /\ chans' = [chans EXCEPT ![rchan[r]] = Append(@, rframe[r])]
    /\ rpc' = [rpc EXCEPT ![r] = "select"]
    /\ staleDelivered' = IF rat[r] \in {NilChan, rchan[r]} THEN staleDelivered
                         ELSE staleDelivered \cup {<<rframe[r].topic, rat[r], rchan[r]>>}
    /\ rframe' = [rframe EXCEPT ![r] = NoFrame]
    /\ rchan' = [rchan EXCEPT ![r] = NilChan]
    /\ rat' = [rat EXCEPT ![r] = NilChan]
    /\ UNCHANGED <<subscribers, callPc, callMsgID, rcount, p2pStopChan>>
    /\ UNCHANGED commFrame

\* Communication.Stop: close(c.stopChan)
CommStop ==
    /\ ~p2pStopChan
    /\ p2pStopChan' = TRUE
    /\ UNCHANGED <<subscribers, chans, callPc, callMsgID, rpc, rframe, rchan, rat, staleDelivered, rcount>>
    /\ UNCHANGED commFrame

CommNext ==
    \/ \E c \in Calls, id \in MsgIDs : KeySignSubscribe1(c, id)
    \/ \E c \in Calls : KeySignSubscribe2(c)
    \/ \E c \in Calls : CallRelayStart(c)
    \/ \E c \in Calls : CallRelayDrain(c)
    \/ \E c \in Calls : CallRelayStop(c)
    \/ \E c \in Calls : KeySignCancel1(c)
    \/ \E c \in Calls : KeySignCancel2(c)
    \/ \E r \in Streams : HandleStream(r)
    \/ \E r \in Streams : ReaderSelect(r)
    \/ \E r \in Streams, t \in Topics, id \in MsgIDs : ReadFrame(r, t, id)
    \/ \E r \in Streams : ReadMalformed(r)
    \/ \E r \in Streams : ReadEnd(r)
    \/ \E r \in Streams : ReaderLookup(r)
    \/ \E r \in Streams : ReaderSend(r)
    \/ CommStop

SpecComm == CommInit /\ [][CommNext]_vars

\* ------------------------------------ the subscription table on its own

\* any caller: SetSubscribe(topic, msgID, channel)
DoSetSubscribe(topic, id, channel) ==
    /\ subscribers' = SetSubscribe(subscribers, topic, id, channel)
    /\ lastOp' = [op |-> "set", topic |-> topic, msgID |-> id, wasLast |-> FALSE]
    /\ UNCHANGED subsFrame

\* any caller: CancelSubscribe(topic, msgID); wasLast records that msgID was
\* the only msg-id of the topic when the call was made
DoCancelSubscribe(topic, id) ==
    /\ subscribers' = CancelSubscribe(subscribers, topic, id)
    /\ lastOp' = [op |-> "cancel", topic |-> topic, msgID |-> id,
                  wasLast |-> (topic \in DOMAIN subscribers
                               /\ DOMAIN subscribers[topic] = {id})]
    /\ UNCHANGED subsFrame

SubsInit ==
    /\ TmParked
    /\ SessParked
    /\ KsParked
    /\ CommParked
    /\ BlParked
    /\ BcParked
    /\ RdParked

SubsNext ==
    \/ \E t \in Topics, id \in MsgIDs, c \in Calls : DoSetSubscribe(t, id, c)
    \/ \E t \in Topics, id \in MsgIDs : DoCancelSubscribe(t, id)

SpecSubs == SubsInit /\ [][SubsNext]_vars

\* ------------------------------------------------ claims on the Communication

\* nothing will receive from the channel of call c any more
NotDrained(c) == callPc[c] \in {"stopped", "cancel1", "done"}

\* C5: delivering a frame to a subscriber never blocks the read task: the task
\* is never in the delivery step with the subscriber's channel full and no
\* task left to drain it (where the send can never complete)
C5_DeliverNonBlocking ==
    \A r \in Streams :
        ~(/\ rpc[r] = "send"
          /\ Len(chans[rchan[r]]) >= ChanCap
          /\ NotDrained(rchan[r]))

\* the call that owns channel c has run its CancelSubscribe for the type
Cancelled(c, topic) ==
    \/ callPc[c] = "done"
    \/ callPc[c] = "cancel1" /\ topic = "TSSKeySignVerMsg"

\* C6: a frame is enqueued only on the channel of a subscription that is live
\* at the moment of the send; in the case the claim names, no send of
\* readFromStream puts a frame on the channel of a subscription that
\* CancelSubscribe has already removed
C6_NotEnqueuedOnCancelled ==
    [][\A r \in Streams :
          (rpc[r] = "send" /\ rpc'[r] = "select") =>
              ~Cancelled(rchan[r], rframe[r].topic)
      ]_vars

\* C7: after SetSubscribe, CancelSubscribe and a second SetSubscribe for the
\* same (type, msg-id), the second subscriber has received no frame that
\* arrived during the first subscription and no frame is left on the first
\* subscriber's channel
C7_NoStrandedAcrossResubscribe ==
    \A a, b \in Calls, t \in Topics :
        (/\ a # b
         /\ callPc[a] = "done"
         /\ getSubscriber(subscribers, t, callMsgID[a]) = b)
        => /\ chans[a] = <<>>
           /\ <<t, a, b>> \notin staleDelivered

\* C8: the subscription table has no empty leaf after any sequence of
\* SetSubscribe and CancelSubscribe calls, and cancelling the last msg-id of a
\* type removes the type's entry
C8_NoEmptyLeaf ==
    /\ \A t \in DOMAIN subscribers : ~IsEmpty(subscribers[t])
    /\ (lastOp.op = "cancel" /\ lastOp.wasLast) => lastOp.topic \notin DOMAIN subscribers

C8_Witness ==
    /\ lastOp.op = "cancel"
    /\ lastOp.wasLast
    /\ DOMAIN subscribers # {}

\* the read task of stream r can never leave the send it is in: the channel is
\* full and nothing will receive from it
StuckInSend(r) ==
    /\ rpc[r] = "send"
    /\ Len(chans[rchan[r]]) >= ChanCap
    /\ NotDrained(rchan[r])

\* C18: after stopChan is closed every read task terminates, in whatever state
\* it was, so that the wait of Stop returns: no read task is left in a state
\* it can never leave
C18_TasksTerminateAfterStop ==
    p2pStopChan => \A r \in Streams : ~StuckInSend(r)


\* C32: the teardown of one KeySign call never removes a subscription that a
\* KeySign call in flight still needs: while a call is between its two
\* SetSubscribe and its return, (TSSKeySignMsg, msg-id) and (TSSKeySignVerMsg,
\* msg-id) both have a subscriber, also when another call for the same msg-id
\* has returned in between
C32_TeardownKeepsLiveSubscription ==
    \A c \in Calls :
        callPc[c] \in {"sub2", "running"} =>
            \A topic \in Topics :
                getSubscriber(subscribers, topic, callMsgID[c]) # NilChan

\* ------------------------------------------------------ TssServer.KeySign

\* conf.KeySignTimeout in seconds (the default of the signtimeout flag)
KeySignTimeout == 30

\* common.GetThreshold on the length of a list: ceil(2n/3) - 1; its error
\* return needs a negative input, which a length never is
GetThreshold(n) == (2 * n + 2) \div 3 - 1

\* the check written with < instead of <=
NotEnoughSignersStrict(ns, threshold) == ns < threshold
\* if len(req.SignerPubKeys) <= threshold
NotEnoughSigners(ns, threshold) == ns <= threshold

\* the wait written without the doubling
WaitTimeoutOnce == KeySignTimeout
\* the timeout KeySign hands to WaitForSignature: t.conf.KeySignTimeout*2
WaitTimeout == KeySignTimeout * 2

\* a request and what the node holds for it: whether requestToMsgId, GetLocalState,
\* the base64 decoding and GetPeerIDs succeed, the number of participant keys of
\* the stored key-share, the number of signer keys and whether the local key is
\* one of them
Requests ==
    {r \in [msgIdOk : BOOLEAN, stateOk : BOOLEAN, decodeOk : BOOLEAN,
            peerIdsOk : BOOLEAN, participants : 0 .. MaxKeys,
            signers : 0 .. MaxKeys, isSigner : BOOLEAN] :
        r.isSigner => r.signers >= 1}

KsInit ==
    /\ TmParked
    /\ SessParked
    /\ CommParked
    /\ BlParked
    /\ BcParked
    /\ RdParked
    /\ ksReq \in Requests
    /\ ksPc = "start"
    /\ ksResp = NoResp
    /\ ksCalls = NoCalls
    /\ ksWaitTimeout = 0
    /\ ksNotifier = "none"
    /\ ksJoin = NoJoin
    /\ ksSign = "none"

\* return emptyResp, err
ErrResp(e) == [status |-> "none", err |-> e, blame |-> NoBlame, sigs |-> "none"]
\* return keysign.Response{Status: common.Fail, Blame: ...}, nil
FailResp(b) == [status |-> "Fail", err |-> "", blame |-> b, sigs |-> "none"]
\* return t.batchSignatures(msgID, data), nil
SigResp(from) == [status |-> "Success", err |-> "", blame |-> NoBlame, sigs |-> from]

\* the signers other than the leader that getBlamePeers can report as absent
OtherSigners == {"signer"}

\* GetPubKeyFromPeerID(leaderPeerID.String()): the key, or "" with a logged error
LeaderKey(keyOk) == IF keyOk THEN "leader" ELSE ""

\* the blame built with the reason of the other failure branch
CoordinatorBlameSync(pKey) == [reason |-> "BlameTssSync", nodes |-> {pKey}]
\* common.NewBlame(common.BlameTssCoordinator, []string{pKey})
CoordinatorBlame(pKey) == [reason |-> "BlameTssCoordinator", nodes |-> {pKey}]

\* getBlamePeers(..., common.BlameTssSync) followed by blame.AddBlameNodes(pKey)
SyncBlame(absent, pKey) == [reason |-> "BlameTssSync", nodes |-> absent \cup {pKey}]

\* keysignInstance.GetTssCommonStruct().BlamePeers after a failed SignMessage
SessionBlame == [reason |-> "TssTimeout", nodes |-> {}]

\* KeySign from its entry to its first blocking call or to its return; a return
\* after the two SetSubscribe runs the two deferred CancelSubscribe
KeySignEnter ==
    /\ ksPc = "start"
    /\ IF ~ksReq.msgIdOk
       THEN /\ ksPc' = "returned"
            /\ ksResp' = ErrResp("fail to get msg id")
            /\ UNCHANGED <<ksCalls, ksWaitTimeout>>
       ELSE LET subscribed == [ksCalls EXCEPT !.subscribe = @ + 2]
                cancelled == [subscribed EXCEPT !.cancel = @ + 2]
                threshold == GetThreshold(ksReq.participants)
                fail(e) == /\ ksPc' = "returned"
                           /\ ksResp' = ErrResp(e)
                           /\ ksCalls' = cancelled
                           /\ UNCHANGED ksWaitTimeout
            IN  IF ~ksReq.stateOk THEN fail("fail to get local keygen state")
                ELSE IF ~ksReq.decodeOk THEN fail("fail to decode message")
                ELSE IF ksReq.signers = 0 THEN fail("empty signer pub keys")
                ELSE IF NotEnoughSigners(ksReq.signers, threshold)
                     THEN fail("not enough signers")
                ELSE IF ~ksReq.isSigner
                     THEN /\ ksPc' = "wait"
                          /\ ksCalls' = [subscribed EXCEPT !.wait = @ + 1]
                          /\ ksWaitTimeout' = WaitTimeout
                          /\ UNCHANGED ksResp
                ELSE IF ~ksReq.peerIdsOk
                     THEN fail("fail to convert pub keys to peer id")
                ELSE /\ ksPc' = "join"
                     /\ ksCalls' = [subscribed EXCEPT !.join = @ + 1]
                     /\ UNCHANGED <<ksResp, ksWaitTimeout>>
    /\ UNCHANGED <<ksReq, ksNotifier, ksJoin, ksSign>>
    /\ UNCHANGED ksFrame

\* WaitForSignature returns: an error, no signature, or the signatures
WaitReturn(outcome) ==
    /\ ksPc = "wait"
    /\ ksPc' = "returned"
    /\ ksNotifier' = outcome
    /\ ksResp' = IF outcome = "err" THEN ErrResp("fail to get signature")
                 ELSE IF outcome = "empty" THEN ErrResp("keysign failed")
                 ELSE SigResp("notifier")
    /\ ksCalls' = [ksCalls EXCEPT !.cancel = @ + 2]
    /\ UNCHANGED <<ksReq, ksWaitTimeout, ksJoin, ksSign>>
    /\ UNCHANGED ksFrame

\* joinParty returns: an error, a response that is not Success (with the
\* signers that did not join), or Success, after which KeySign calls SignMessage;
\* on the two failures KeySign extracts the leader's key, calls
\* broadcastKeysignFailure and returns a blame
JoinReturn(outcome, keyOk, absent) ==
    /\ ksPc = "join"
    /\ IF outcome = "success"
       THEN /\ ksPc' = "sign"
            /\ ksJoin' = [result |-> outcome, keyOk |-> FALSE, absent |-> {}]
            /\ ksCalls' = [ksCalls EXCEPT !.sign = @ + 1]
            /\ UNCHANGED ksResp
       ELSE /\ ksPc' = "returned"
            /\ ksJoin' = [result |-> outcome, keyOk |-> keyOk,
                          absent |-> IF outcome = "err" THEN {} ELSE absent]
            /\ ksCalls' = [ksCalls EXCEPT !.failed = @ + 1, !.cancel = @ + 2]
            /\ ksResp' = IF outcome = "err"
                         THEN FailResp(CoordinatorBlame(LeaderKey(keyOk)))
                         ELSE FailResp(SyncBlame(absent, LeaderKey(keyOk)))
    /\ UNCHANGED <<ksReq, ksWaitTimeout, ksNotifier, ksSign>>
    /\ UNCHANGED ksFrame

\* SignMessage returns an error, or the signatures, which KeySign hands to
\* BroadcastSignature before it returns them; or SignMessage does not return:
\* processKeySign calls lastMsg.IsBroadcast() on a nil last message and the
\* process panics
SignReturn(outcome) ==
    /\ ksPc = "sign"
    /\ ksSign' = outcome
    /\ IF outcome = "panic"
       THEN /\ ksPc' = "panicked"
            /\ UNCHANGED <<ksCalls, ksResp>>
       ELSE /\ ksPc' = "returned"
            /\ IF outcome = "err"
               THEN /\ ksCalls' = [ksCalls EXCEPT !.failed = @ + 1, !.cancel = @ + 2]
                    /\ ksResp' = FailResp(SessionBlame)
               ELSE /\ ksCalls' = [ksCalls EXCEPT !.notified = @ + 1, !.cancel = @ + 2]
                    /\ ksResp' = IF outcome = "broadcast failed"
                                 THEN ErrResp("fail to broadcast signature")
                                 ELSE SigResp("signed")
    /\ UNCHANGED <<ksReq, ksWaitTimeout, ksNotifier, ksJoin>>
    /\ UNCHANGED ksFrame

KsNext ==
    \/ KeySignEnter
    \/ \E outcome \in {"err", "empty", "sigs"} : WaitReturn(outcome)
    \/ \E outcome \in {"err", "not success", "success"}, keyOk \in BOOLEAN,
          absent \in SUBSET OtherSigners : JoinReturn(outcome, keyOk, absent)
    \/ \E outcome \in {"err", "panic", "broadcast failed", "ok"} : SignReturn(outcome)

SpecKeySign == KsInit /\ [][KsNext]_vars

\* ------------------------------------------------ claims on TssServer.KeySign

\* ceil(2n/3) - 1, said without a division: the t with 3t < 2n <= 3(t + 1)
CeilThreshold(n) ==
    CHOOSE t \in -1 .. MaxKeys + 1 : 3 * t < 2 * n /\ 2 * n <= 3 * (t + 1)

\* KeySign has looked at the request, derived its msg-id, found the key-share
\* and decoded the messages
ReachedSignerCheck ==
    /\ ksPc # "start"
    /\ ksReq.msgIdOk
    /\ ksReq.stateOk
    /\ ksReq.decodeOk

\* KeySign has started party formation, the MPC parties or the notifier wait
WentOn == ksCalls.wait + ksCalls.join + ksCalls.sign > 0

\* C9, as stated: KeySign goes on only when |signers| > ceil(2n/3) - 1; when
\* |signers| <= threshold it fails with 'not enough signers' and starts no party
\* formation, no MPC party and no notifier wait
C9_NotEnoughSigners ==
    ReachedSignerCheck =>
        /\ WentOn => ksReq.signers > CeilThreshold(ksReq.participants)
        /\ ksReq.signers <= CeilThreshold(ksReq.participants) =>
               /\ ksPc = "returned"
               /\ ksResp = ErrResp("not enough signers")
               /\ ~WentOn

\* C9, amended: KeySign goes on only when |signers| > ceil(2n/3) - 1; when
\* |signers| <= threshold it fails with an error, 'empty signer pub keys' for an
\* empty signer list and 'not enough signers' otherwise, and starts no party
\* formation, no MPC party and no notifier wait
C9_FailsAtOrBelowThreshold ==
    ReachedSignerCheck =>
        /\ WentOn => ksReq.signers > CeilThreshold(ksReq.participants)
        /\ ksReq.signers <= CeilThreshold(ksReq.participants) =>
               /\ ksPc = "returned"
               /\ ksResp = IF ksReq.signers = 0
                           THEN ErrResp("empty signer pub keys")
                           ELSE ErrResp("not enough signers")
               /\ ~WentOn

C9_Witness ==
    /\ ReachedSignerCheck
    /\ ksReq.signers >= 1
    /\ ksReq.signers = CeilThreshold(ksReq.participants)
    /\ ksResp = ErrResp("not enough signers")
    /\ ksCalls.cancel = 2

\* a request that passes every check of KeySign before the signer test
ValidRequest ==
    /\ ksReq.msgIdOk
    /\ ksReq.stateOk
    /\ ksReq.decodeOk
    /\ ksReq.signers >= 1
    /\ ksReq.signers > CeilThreshold(ksReq.participants)

\* C10: for a valid request whose signer keys do not hold the local key, KeySign
\* runs neither party formation nor the round relay; it waits once on the
\* notifier with 2 x KeySignTimeout and returns what the notifier gave: the
\* signatures, or an error when the wait failed or gave no signature
C10_NonSignerWaitsOnNotifier ==
    (ksPc # "start" /\ ValidRequest /\ ~ksReq.isSigner) =>
        /\ ksCalls.join = 0
        /\ ksCalls.sign = 0
        /\ ksCalls.wait = 1
        /\ ksWaitTimeout = 2 * KeySignTimeout
        /\ ksPc \in {"wait", "returned"}
        /\ ksPc = "returned" =>
               /\ ksNotifier \in {"err", "empty", "sigs"}
               /\ ksNotifier = "sigs" => ksResp = SigResp("notifier")
               /\ ksNotifier # "sigs" =>
                      /\ ksResp.status = "none"
                      /\ ksResp.err # ""
                      /\ ksResp.sigs = "none"

C10_Witness ==
    /\ ksPc = "returned"
    /\ ValidRequest
    /\ ~ksReq.isSigner
    /\ ksNotifier = "sigs"
    /\ ksResp = SigResp("notifier")

\* party formation failed, or the signing round failed or timed out
SessionFailed ==
    \/ ksJoin.result \in {"err", "not success"}
    \/ ksSign \in {"err", "panic"}

\* C11: a session-level failure of KeySign (party-formation error, response
\* other than Success, failed or timed-out signing round) is returned as a
\* Response with Status = Fail, a blame body and a nil error
C11_SessionFailureIsFailResponse ==
    SessionFailed =>
        /\ ksPc = "returned"
        /\ ksResp.status = "Fail"
        /\ ksResp.err = ""
        /\ ksResp.blame # NoBlame

\* the request breaks what a caller must guarantee, or the key-share is not
\* in the storage
StorageOrInvariantFailure ==
    \/ ~ksReq.msgIdOk
    \/ ~ksReq.stateOk
    \/ ~ksReq.decodeOk
    \/ ksReq.signers = 0
    \/ ksReq.signers <= CeilThreshold(ksReq.participants)
    \/ ~ksReq.peerIdsOk

\* C12: KeySign returns a non-nil error only for a storage failure or a
\* programmer-invariant violation; every other failing outcome has a nil error
C12_ErrorOnlyForStorageOrInvariant ==
    (ksPc = "returned" /\ ksResp.err # "") => StorageOrInvariantFailure

C14_FailureIsNotified ==
    /\ (SessionFailed /\ ksPc \in {"returned", "panicked"}) => ksCalls.failed = 1
    /\ ~(ksCalls.failed >= 1 /\ ksCalls.notified >= 1)

\* ------------------------------------- the blame verdict of a session timeout

\* tKeySign.tssCommonStruct.P2PPeers: the nodes of the session but the local one
P2PPeers == blNodes \ {blLocal}

\* blame.TssTimeout, the reason used when the blame has none yet
TssTimeout == "TssTimeout"

\* the test written with < instead of <=
WithinCapStrict(k, threshold) == k > 0 /\ k < threshold
\* len(blameNodes) > 0 && len(blameNodes) <= threshold
WithinCap(k, threshold) == k > 0 /\ k <= threshold

\* Blame.SetBlame(reason, nodes, isUnicast, round)
SetBlame(b, reason, nodes, isUnicast) ==
    [reason |-> reason, nodes |-> nodes, isUnicast |-> isUnicast]

\* Blame.AddBlameNodes(nodes...)
AddBlameNodes(b, nodes) == [b EXCEPT !.nodes = @ \cup nodes]

\* the blame left by the timeout case of processKeyGen / processKeySign, for a
\* last message that is set: the unicast blame under the cap, the broadcast
\* blame, and the missing shares when nobody is blamed yet
TimeoutBlame(threshold, unicast, broadcast, missing) ==
    LET b1 == IF WithinCap(Cardinality(unicast), threshold)
              THEN SetBlame(EmptyBlame, TssTimeout, unicast, TRUE)
              ELSE EmptyBlame
        b2 == AddBlameNodes(b1, broadcast)
    IN  IF b2.nodes = {}
           /\ WithinCap(Cardinality(missing.nodes), threshold)
        THEN [AddBlameNodes(b2, missing.nodes) EXCEPT !.isUnicast = missing.isUnicast]
        ELSE b2

BlInit ==
    /\ TmParked
    /\ SessParked
    /\ CommParked
    /\ KsParked
    /\ BcParked
    /\ RdParked
    /\ blKind \in {"keygen", "keysign"}
    /\ \E n \in 1 .. MaxNodes : blNodes = 1 .. n
    /\ blLocal \in blNodes
    /\ blLast \in {"none", "unicast", "broadcast"}
    /\ blUnicast \in SUBSET (blNodes \ {blLocal})
    /\ blBroadcast \in SUBSET (blNodes \ {blLocal})
    /\ blMissing \in [nodes : SUBSET (blNodes \ {blLocal}), isUnicast : BOOLEAN]
    /\ blPc = "timeout"
    /\ blVerdict = EmptyBlame

\* case <-time.After(timeout) of the two loops
TimeoutFires ==
    /\ blPc = "timeout"
    /\ IF blLast = "none"
       THEN /\ blPc' = IF blKind = "keygen" THEN "returned" ELSE "panicked"
            /\ UNCHANGED blVerdict
       ELSE /\ blPc' = "returned"
            /\ blVerdict' = TimeoutBlame(GetThreshold(Cardinality(P2PPeers) + 1),
                                         blUnicast, blBroadcast, blMissing)
    /\ UNCHANGED <<blKind, blNodes, blLocal, blLast, blUnicast, blBroadcast, blMissing>>
    /\ UNCHANGED blFrame

BlNext == TimeoutFires

SpecBlame == BlInit /\ [][BlNext]_vars

\* the timeout handler has built a verdict from the evidence
VerdictBuilt == blPc = "returned" /\ blLast # "none"

\* C15: a verdict built on a keygen or keysign timeout never accuses more
\* than threshold nodes, whatever the unicast, broadcast and missing-share
\* evidence (evidence beyond the threshold leaves a verdict that accuses no one)
C15_BlameWithinThreshold ==
    VerdictBuilt =>
        Cardinality(blVerdict.nodes) <= CeilThreshold(Cardinality(blNodes))

\* C16: in a signing session where exactly one signer w withholds its unicast
\* shares and the others follow the protocol (the unicast evidence names w
\* alone, the broadcast evidence names nobody else), the timeout leaves a
\* verdict that names exactly w with is-unicast = true, whichever honest node
\* is the local one
C16_WithholderBlamed ==
    \A w \in blNodes \ {blLocal} :
        (/\ blKind = "keysign"
         /\ VerdictBuilt
         /\ blUnicast = {w}
         /\ blBroadcast \subseteq {w}) =>
            /\ blVerdict.nodes = {w}
            /\ blVerdict.isUnicast
            /\ blVerdict.reason = "TssTimeout"

C16_Witness ==
    /\ blKind = "keysign"
    /\ VerdictBuilt
    /\ Cardinality(blNodes) = 3
    /\ blLocal = 1
    /\ blUnicast = {3}
    /\ blBroadcast = {}
    /\ blVerdict.nodes = {3}

\* C27: every verdict a timeout builds that accuses at least one node
\* carries a non-empty reason tag, also when the accused nodes come only from
\* the broadcast or the missing-share evidence
C27_VerdictHasReason ==
    (VerdictBuilt /\ blVerdict.nodes # {}) => blVerdict.reason # ""

\* C28: the is-unicast flag of a verdict built on a timeout is true only when
\* the accused nodes come from unicast evidence (the unicast blame, or the
\* missing shares when they are reported as unicast)
C28_UnicastFlagFromUnicastEvidence ==
    (VerdictBuilt /\ blVerdict.isUnicast) =>
        blVerdict.nodes \subseteq
            (blUnicast \cup (IF blMissing.isUnicast THEN blMissing.nodes ELSE {}))

\* ------------------------------------ outbound side of the Communication

\* c.host.ID(): the local peer
LocalPeer == 0
RemotePeers == 1 .. MaxPeers
\* what FindPeers yields under the rendezvous: the remote peers and the local one
Discovered == RemotePeers \cup {LocalPeer}
\* the peer lists a session broadcasts to: everyone, a list that names the local
\* peer and leaves a discovered peer out, and all the remote peers
PeerLists == {{}, {LocalPeer, 1}, RemotePeers}

\* the least peer of a non-empty set: peerChan hands the discovered peers over
\* one at a time, here in the order of their ids
FirstPeer(todo) == CHOOSE p \in todo : \A q \in todo : p <= q

\* Communication.shouldWeWriteToPeer with the list test dropped
shouldWeWriteToAnyPeer(ai, peers) == TRUE

\* Communication.shouldWeWriteToPeer: an empty list is everyone
shouldWeWriteToPeer(ai, peers) == IF peers = {} THEN TRUE ELSE ai \in peers

\* writeToStream, "don't send to ourself", and connectToOnePeer, which hands
\* back no stream for the local peer
IsSelf(ai) == ai = LocalPeer

\* the loop of broadcastToPeers after writeToStream returned an error, were the
\* error to end the broadcast
AfterWriteFatal(err) == IF err THEN "done" ELSE "loop"

\* the loop of broadcastToPeers after writeToStream: the error is logged and
\* the loop goes round
AfterWrite(err) == "loop"

BcInit ==
    /\ TmParked
    /\ SessParked
    /\ CommParked
    /\ KsParked
    /\ BlParked
    /\ RdParked
    /\ bcQueue = <<>>
    /\ bcSent = 0
    /\ pbPc = "select"
    /\ bcTasks = <<>>
    /\ bcWrites = {}

\* a session puts a message for the listed peers on BroadcastMsgChan
SendBroadcastMsg(peers, marshalOk) ==
    /\ bcSent < MaxMsgs
    /\ bcSent' = bcSent + 1
    /\ bcQueue' = Append(bcQueue, [peers |-> peers, marshalOk |-> marshalOk])
    /\ UNCHANGED <<pbPc, bcTasks, bcWrites, p2pStopChan>>
    /\ UNCHANGED bcFrame

\* ProcessBroadcast, case msg := <-c.BroadcastMsgChan: marshal and Broadcast,
\* which starts a broadcastToPeers task; the select takes this case whenever a
\* message is queued, whether or not stopChan is closed as well
ProcessBroadcastMsg ==
    /\ pbPc = "select"
    /\ bcQueue # <<>>
    /\ bcQueue' = Tail(bcQueue)
    /\ bcTasks' = IF Head(bcQueue).marshalOk
                  THEN Append(bcTasks, [pc |-> "start", peers |-> Head(bcQueue).peers,
                                        todo |-> {}, failed |-> {}])
                  ELSE bcTasks
    /\ UNCHANGED <<bcSent, pbPc, bcWrites, p2pStopChan>>
    /\ UNCHANGED bcFrame

\* ProcessBroadcast, case <-c.stopChan: return
ProcessBroadcastStop ==
    /\ pbPc = "select"
    /\ p2pStopChan
    /\ pbPc' = "done"
    /\ UNCHANGED <<bcQueue, bcSent, bcTasks, bcWrites, p2pStopChan>>
    /\ UNCHANGED bcFrame

\* broadcastToPeers up to its loop: return on an empty peer list, FindPeers
BroadcastTaskStart(t, found) ==
    /\ t \in DOMAIN bcTasks
    /\ bcTasks[t].pc = "start"
    /\ bcTasks' = [bcTasks EXCEPT ![t] =
          IF bcTasks[t].peers = {} \/ ~found
          THEN [@ EXCEPT !.pc = "done"]
          ELSE [@ EXCEPT !.pc = "loop", !.todo = Discovered]]
    /\ UNCHANGED <<bcQueue, bcSent, pbPc, bcWrites, p2pStopChan>>
    /\ UNCHANGED bcFrame

\* broadcastToPeers, case ai, more := <-peerChan with more: writeToStream when
\* shouldWeWriteToPeer; writeToStream returns at once for the local peer and
\* otherwise opens a stream and writes, which fails (err) on a dial, deadline
\* or write error; the error is logged and the loop goes on. The select takes
\* this case whenever a peer is ready, whether or not stopChan is closed as well
BroadcastTaskPeer(t, ai, err) ==
    /\ t \in DOMAIN bcTasks
    /\ bcTasks[t].pc = "loop"
    /\ bcTasks[t].todo # {}
    /\ ai = FirstPeer(bcTasks[t].todo)
    /\ IF shouldWeWriteToPeer(ai, bcTasks[t].peers) /\ ~IsSelf(ai)
       THEN /\ bcWrites' = bcWrites \cup {[task |-> t, peer |-> ai]}
            /\ bcTasks' = [bcTasks EXCEPT
                  ![t].todo = @ \ {ai},
                  ![t].failed = IF err THEN @ \cup {ai} ELSE @,
                  ![t].pc = AfterWrite(err)]
       ELSE /\ ~err
            /\ bcWrites' = bcWrites
            /\ bcTasks' = [bcTasks EXCEPT ![t].todo = @ \ {ai}]
    /\ UNCHANGED <<bcQueue, bcSent, pbPc, p2pStopChan>>
    /\ UNCHANGED bcFrame

\* broadcastToPeers, case ai, more := <-peerChan with !more: the discovery is
\* exhausted or the TimeoutBroadcast context has expired
BroadcastTaskEnd(t) ==
    /\ t \in DOMAIN bcTasks
    /\ bcTasks[t].pc = "loop"
    /\ bcTasks' = [bcTasks EXCEPT ![t].pc = "done"]
    /\ UNCHANGED <<bcQueue, bcSent, pbPc, bcWrites, p2pStopChan>>
    /\ UNCHANGED bcFrame

\* broadcastToPeers, case <-c.stopChan: return
BroadcastTaskStop(t) ==
    /\ t \in DOMAIN bcTasks
    /\ bcTasks[t].pc = "loop"
    /\ p2pStopChan
    /\ bcTasks' = [bcTasks EXCEPT ![t].pc = "stopped"]
    /\ UNCHANGED <<bcQueue, bcSent, pbPc, bcWrites, p2pStopChan>>
    /\ UNCHANGED bcFrame

BcNext ==
    \/ \E peers \in PeerLists, ok \in BOOLEAN : SendBroadcastMsg(peers, ok)
    \/ ProcessBroadcastMsg
    \/ ProcessBroadcastStop
    \/ \E t \in 1 .. MaxMsgs, found \in BOOLEAN : BroadcastTaskStart(t, found)
    \/ \E t \in 1 .. MaxMsgs, ai \in Discovered, err \in BOOLEAN :
          BroadcastTaskPeer(t, ai, err)
    \/ \E t \in 1 .. MaxMsgs : BroadcastTaskEnd(t)
    \/ \E t \in 1 .. MaxMsgs : BroadcastTaskStop(t)
    \/ CommStop

SpecBroadcast == BcInit /\ [][BcNext]_vars

\* C19: once stopChan is closed no further outbound frame is emitted:
\* ProcessBroadcast starts no broadcast for a message still queued and a running
\* broadcastToPeers writes to no further peer
C19_NoOutboundAfterStop ==
    [][p2pStopChan => (Len(bcTasks') = Len(bcTasks) /\ bcWrites' = bcWrites)]_vars

\* C20: a broadcast with an empty peer list sends the frame to all discovered
\* peers: once its task has returned, without a stop, every discovered peer
\* other than the local one has had a write attempt
C20_EmptyListIsEveryone ==
    \A t \in DOMAIN bcTasks :
        (bcTasks[t].peers = {} /\ bcTasks[t].pc = "done" /\ ~p2pStopChan) =>
            \A p \in RemotePeers :
                \E w \in bcWrites : w.task = t /\ w.peer = p

\* C21: a broadcast with a non-empty peer list opens a stream only to discovered
\* peers that are in the list, and no broadcast ever opens a stream to the local
\* peer, be it in the list or among the discovered peers
C21_WritesOnlyToListedNeverSelf ==
    \A w \in bcWrites :
        /\ w.peer # LocalPeer
        /\ bcTasks[w.task].peers # {} =>
              (w.peer \in bcTasks[w.task].peers /\ w.peer \in Discovered)

\* a broadcast whose list names the local peer and one remote peer has gone
\* through all the discovered peers and has written to that remote peer alone
C21_Witness ==
    \E t \in DOMAIN bcTasks :
        /\ bcTasks[t].peers = {LocalPeer, 1}
        /\ bcTasks[t].pc = "loop"
        /\ bcTasks[t].todo = {}
        /\ {w.peer : w \in {x \in bcWrites : x.task = t}} = {1}

\* C23: a failed write towards one target peer is not fatal: in the step where
\* writeToStream fails the broadcast stays in its loop with the remaining peers
\* still to come, and ProcessBroadcast and its queue are left as they were
C23_WriteFailureNotFatal ==
    [][\A t \in DOMAIN bcTasks :
          bcTasks'[t].failed # bcTasks[t].failed =>
              /\ bcTasks'[t].pc = "loop"
              /\ bcTasks'[t].todo = bcTasks[t].todo \ {FirstPeer(bcTasks[t].todo)}
              /\ pbPc' = pbPc
              /\ bcQueue' = bcQueue]_vars

\* the write to the first remote peer failed, the same broadcast went on to
\* write to the next one, and a later broadcast was started and has written too
C23_Witness ==
    \E t1 \in DOMAIN bcTasks, t2 \in DOMAIN bcTasks :
        /\ t1 < t2
        /\ bcTasks[t1].failed = {1}
        /\ [task |-> t1, peer |-> 2] \in bcWrites
        /\ [task |-> t2, peer |-> 1] \in bcWrites
        /\ pbPc = "select"

\* ------------------------------------ one inbound stream, frame by frame

\* MaxPayload: the maximum payload for a message
MaxPayload == 81920

\* the values the length header of a frame is drawn from
Lengths == {1, MaxPayload, MaxPayload + 1}

\* the subscription the stream is read under: one msg-id of TSSKeySignMsg
RdSubscribers == SetSubscribe(<<>>, "TSSKeySignMsg", 1, 1)

\* the frames a peer may put on the stream: only the header of a frame above
\* MaxPayload is read, and a body that is not valid JSON names no msg-id
RdFrames ==
    {[len |-> l, json |-> FALSE, msgID |-> 0] : l \in Lengths}
        \cup {[len |-> l, json |-> TRUE, msgID |-> m] :
                 l \in {x \in Lengths : x <= MaxPayload}, m \in {1, 2}}

\* the size test of readFromStream with the bound itself refused
PayloadTooLargeStrict(l) == l >= MaxPayload

\* readFromStream: if l > MaxPayload
PayloadTooLarge(l) == l > MaxPayload

\* readFromStream leaving the loop on a frame it drops
AfterDropReturn == "closed"

\* readFromStream on a frame it drops (json.Unmarshal fails, no subscriber):
\* continue
AfterDrop == "select"

RdInit ==
    /\ TmParked
    /\ SessParked
    /\ CommParked
    /\ KsParked
    /\ BlParked
    /\ BcParked
    /\ rdPc = "select"
    /\ rdArrived = <<>>
    /\ rdChan = <<>>
    /\ rdGot = <<>>
    /\ rdReset = FALSE

\* readFromStream, one turn of the loop on the default case of its select, up
\* to the channel send: the header is read, a length above MaxPayload ends the
\* task; the body is read and unmarshalled, a failure is logged and the loop
\* goes round; getSubscriber, no subscriber is logged and the loop goes round
RdReadFrame(f) ==
    /\ rdPc = "select"
    /\ ~p2pStopChan
    /\ Len(rdArrived) < MaxRead
    /\ rdArrived' = Append(rdArrived, f)
    /\ rdPc' = IF PayloadTooLarge(f.len) THEN "closed"
               ELSE IF ~f.json THEN AfterDrop
               ELSE IF getSubscriber(RdSubscribers, "TSSKeySignMsg", f.msgID) = NilChan
                    THEN AfterDrop
               ELSE "send"
    /\ rdReset' = (rdPc' = "closed")
    /\ UNCHANGED <<rdChan, rdGot, p2pStopChan>>
    /\ UNCHANGED rdFrame

\* readFromStream: the read deadline cannot be set, EOF, a read error or a
\* short header, or the read of the body fails: return
RdReadError ==
    /\ rdPc = "select"
    /\ ~p2pStopChan
    /\ rdPc' = "closed"
    /\ rdReset' = TRUE
    /\ UNCHANGED <<rdArrived, rdChan, rdGot, p2pStopChan>>
    /\ UNCHANGED rdFrame

\* readFromStream, case <-c.stopChan: return
RdStop ==
    /\ rdPc = "select"
    /\ p2pStopChan
    /\ rdPc' = "closed"
    /\ rdReset' = TRUE
    /\ UNCHANGED <<rdArrived, rdChan, rdGot, p2pStopChan>>
    /\ UNCHANGED rdFrame

\* channel <- &Message{...}: possible only while the channel has room
RdSend ==
    /\ rdPc = "send"
    /\ Len(rdChan) < ChanCap
    /\ rdChan' = Append(rdChan, Len(rdArrived))
    /\ rdGot' = Append(rdGot, Len(rdArrived))
    /\ rdPc' = "select"
    /\ UNCHANGED <<rdArrived, rdReset, p2pStopChan>>
    /\ UNCHANGED rdFrame

\* the subscriber receives one message of the channel
RdDrain ==
    /\ rdChan # <<>>
    /\ rdChan' = Tail(rdChan)
    /\ UNCHANGED <<rdPc, rdArrived, rdGot, rdReset, p2pStopChan>>
    /\ UNCHANGED rdFrame

RdNext ==
    \/ \E f \in RdFrames : RdReadFrame(f)
    \/ RdReadError
    \/ RdStop
    \/ RdSend
    \/ RdDrain
    \/ CommStop

SpecReader == RdInit /\ [][RdNext]_vars

\* a frame the read task hands on: within MaxPayload, valid JSON, subscribed
Deliverable(f) ==
    /\ f.len <= MaxPayload
    /\ f.json
    /\ f.msgID \in DOMAIN RdSubscribers["TSSKeySignMsg"]

\* the positions in rdArrived of the frames handled to the end
Handled ==
    {i \in DOMAIN rdArrived : i < Len(rdArrived) \/ rdPc # "send"}

\* C22: a frame whose length header is above MaxPayload is never delivered and
\* ends the read task with the stream reset, so that it is the last frame read
\* from the stream; a frame of exactly MaxPayload bytes is accepted: when it is
\* valid and subscribed it is delivered
C22_OversizeEndsStream ==
    \A i \in DOMAIN rdArrived :
        /\ rdArrived[i].len > MaxPayload =>
              /\ \A k \in DOMAIN rdGot : rdGot[k] # i
              /\ rdPc = "closed"
              /\ rdReset
              /\ i = Len(rdArrived)
        /\ (rdArrived[i].len = MaxPayload /\ Deliverable(rdArrived[i]) /\ i \in Handled) =>
              \E k \in DOMAIN rdGot : rdGot[k] = i

\* a frame of exactly MaxPayload bytes was delivered, the next frame announced
\* one byte more and the read task has ended with the stream reset
C22_Witness ==
    /\ Len(rdArrived) = 2
    /\ rdArrived[1] = [len |-> MaxPayload, json |-> TRUE, msgID |-> 1]
    /\ rdArrived[2].len = MaxPayload + 1
    /\ rdGot = <<1>>
    /\ rdPc = "closed"
    /\ rdReset

\* the positions of s that hold a deliverable frame, in order
RECURSIVE DeliverablePositions(_, _)
DeliverablePositions(s, i) ==
    IF i > Len(s) THEN <<>>
    ELSE IF Deliverable(s[i]) /\ i \in Handled
         THEN <<i>> \o DeliverablePositions(s, i + 1)
         ELSE DeliverablePositions(s, i + 1)

\* C29: a frame that is not valid JSON or that names a (type, msg-id) with no
\* subscriber is dropped and leaves the read task in its loop with the stream
\* open; the frames delivered are exactly the valid subscribed frames that were
\* handled, in arrival order
C29_DropKeepsStream ==
    /\ [](rdGot = DeliverablePositions(rdArrived, 1))
    /\ [][(Len(rdArrived') > Len(rdArrived)
             /\ rdArrived'[Len(rdArrived')].len <= MaxPayload
             /\ ~Deliverable(rdArrived'[Len(rdArrived')]))
          => (rdPc' = "select" /\ ~rdReset' /\ rdGot' = rdGot)]_vars

\* a frame that is not JSON and a frame for an unknown msg-id were dropped and
\* the two valid frames around the second one were both delivered, in order
C29_Witness ==
    /\ Len(rdArrived) = 4
    /\ ~rdArrived[1].json
    /\ rdArrived[1].len <= MaxPayload
    /\ Deliverable(rdArrived[2])
    /\ rdArrived[3].json
    /\ rdArrived[3].msgID = 2
    /\ Deliverable(rdArrived[4])
    /\ rdGot = <<2, 4>>

\* ------------------------------------ the session timeout against the clock

\* conf.KeyGenTimeout in seconds (the default of the gentimeout flag)
KeyGenTimeout == 30

\* tssConf.KeyGenTimeout / tssConf.KeySignTimeout
Timeout(k) == IF k = "keygen" THEN KeyGenTimeout ELSE KeySignTimeout

\* how long the clock is followed: long enough for every event to come just
\* before the timeout would fire
MaxClock == (MaxEmit + 1) * KeySignTimeout

\* a timer created once, before the loop
ArmTimerOnce(now, armed) == armed

\* case <-time.After(timeout) inside the for: every pass through the select
\* creates a new timer
ArmTimer(now, armed) == now

TmInit ==
    /\ SessParked
    /\ CommParked
    /\ KsParked
    /\ BlParked
    /\ BcParked
    /\ RdParked
    /\ tmKind \in {"keygen", "keysign"}
    /\ tmClock = 0
    /\ tmArmed = 0
    /\ tmLastEvent = 0
    /\ tmCh = <<>>
    /\ tmEmitted = 0
    /\ tmPc = "select"

\* a second goes by while the select waits: no event is ready and the timer
\* has not expired
TmTick ==
    /\ tmPc = "select"
    /\ tmCh = <<>>
    /\ tmClock - tmArmed < Timeout(tmKind)
    /\ tmClock < MaxClock
    /\ tmClock' = tmClock + 1
    /\ UNCHANGED <<tmKind, tmArmed, tmLastEvent, tmCh, tmEmitted, tmPc>>
    /\ UNCHANGED tmFrame

\* the MPC library: a local party puts a message on the out-channel ("out") or
\* a final artifact on the end-channel ("end"; "final" for the last one)
TmEmit(e) ==
    /\ tmPc = "select"
    /\ tmEmitted < MaxEmit
    /\ \A i \in DOMAIN tmCh : tmCh[i] # "final"
    /\ tmKind = "keygen" => e # "end"
    /\ tmCh' = Append(tmCh, e)
    /\ tmEmitted' = tmEmitted + 1
    /\ UNCHANGED <<tmKind, tmClock, tmArmed, tmLastEvent, tmPc>>
    /\ UNCHANGED tmFrame

\* case msg := <-outCh / case msg := <-endCh: the event is handled and, unless
\* it was the last artifact, the for loop enters the select again
TmEvent ==
    /\ tmPc = "select"
    /\ tmCh # <<>>
    /\ tmCh' = Tail(tmCh)
    /\ tmLastEvent' = tmClock
    /\ IF Head(tmCh) = "final"
       THEN /\ tmPc' = "done"
            /\ UNCHANGED tmArmed
       ELSE /\ tmPc' = "select"
            /\ tmArmed' = ArmTimer(tmClock, tmArmed)
    /\ UNCHANGED <<tmKind, tmClock, tmEmitted>>
    /\ UNCHANGED tmFrame

\* case <-time.After(timeout): the timer of this pass has expired
TmTimeout ==
    /\ tmPc = "select"
    /\ tmClock - tmArmed >= Timeout(tmKind)
    /\ tmPc' = "timedout"
    /\ UNCHANGED <<tmKind, tmClock, tmArmed, tmLastEvent, tmCh, tmEmitted>>
    /\ UNCHANGED tmFrame

TmNext ==
    \/ TmTick
    \/ \E e \in {"out", "end", "final"} : TmEmit(e)
    \/ TmEvent
    \/ TmTimeout

SpecTimeout == TmInit /\ [][TmNext]_vars

\* C31: the session timeout is re-armed at every loop iteration: the timeout
\* branch is taken only when a full KeyGenTimeout / KeySignTimeout has gone by
\* since the last out-channel or end-channel event (since the loop was entered
\* when there was none), however long ago the session started
C31_TimeoutRearmedEveryIteration ==
    /\ tmPc = "timedout" => tmClock - tmLastEvent >= Timeout(tmKind)
    /\ tmPc = "select" => tmArmed = tmLastEvent

\* two timeouts after its start a session whose parties emitted twice, each
\* time before the timer expired, is still waiting in its select
C31_Witness ==
    /\ tmPc = "select"
    /\ tmClock >= 2 * Timeout(tmKind)
    /\ tmEmitted = 2
    /\ tmCh = <<>>

====
